---- MODULE Spec2Model ----
(***************************************************************************)
(* A model of the anatomical viewer (src/viewer.js): key normalisation,    *)
(* the group index, the mesh index, the selection, the material state      *)
(* machine, the chips panel and the token-based load protocol of           *)
(* loadSystem; and of the search chips of the multi-system variant         *)
(* (src/unnamed/part_000).                                                 *)
(*                                                                         *)
(* Strings are sequences of one-character strings, so that the regular     *)
(* expressions of normalizeLabel and slugify are computed, not assumed.    *)
(***************************************************************************)
EXTENDS Integers, Sequences, FiniteSets, TLC

(***************************************************************************)
(* Characters and strings                                                  *)
(***************************************************************************)
UpperChars == <<"A","B","C","D","E","F","G","H","I","J","K","L","M",
                "N","O","P","Q","R","S","T","U","V","W","X","Y","Z">>

LowerChars == <<"a","b","c","d","e","f","g","h","i","j","k","l","m",
                "n","o","p","q","r","s","t","u","v","w","x","y","z">>

DigitChars == {"0","1","2","3","4","5","6","7","8","9"}

\* The characters String.prototype.trim and the class \s remove that the
\* model's strings use: space, tab and line feed.
WhiteChars == {" ", "\t", "\n"}

\* The characters the regular-expression dot does not match.
LineTerminators == {"\n"}

\* U+0000, which normalizeLabel deletes first.
NulChar == "NUL"

IndexIn(c, seq) == CHOOSE i \in 1..Len(seq) : seq[i] = c

IsUpper(c) == \E i \in 1..Len(UpperChars) : UpperChars[i] = c

\* String.prototype.toLowerCase, one character.
ToLowerChar(c) == IF IsUpper(c) THEN LowerChars[IndexIn(c, UpperChars)] ELSE c

ToLowerCase(s) == [i \in 1..Len(s) |-> ToLowerChar(s[i])]

\* [a-z0-9]
IsSlugChar(c) ==
    \/ \E i \in 1..Len(LowerChars) : LowerChars[i] = c
    \/ c \in DigitChars

RECURSIVE TrimLeftOf(_, _)
TrimLeftOf(s, drop) ==
    IF s # <<>> /\ Head(s) \in drop THEN TrimLeftOf(Tail(s), drop) ELSE s

RECURSIVE TrimRightOf(_, _)
TrimRightOf(s, drop) ==
    IF s # <<>> /\ s[Len(s)] \in drop
    THEN TrimRightOf(SubSeq(s, 1, Len(s) - 1), drop)
    ELSE s

\* String.prototype.trim
Trim(s) == TrimRightOf(TrimLeftOf(s, WhiteChars), WhiteChars)

\* s.replace(/\u0000/g, '')
RECURSIVE RemoveNul(_)
RemoveNul(s) ==
    IF s = <<>> THEN <<>>
    ELSE IF Head(s) = NulChar THEN RemoveNul(Tail(s))
    ELSE <<Head(s)>> \o RemoveNul(Tail(s))

EndsWithNoCase(s, suffix) ==
    /\ Len(s) >= Len(suffix)
    /\ ToLowerCase(SubSeq(s, Len(s) - Len(suffix) + 1, Len(s))) = suffix

SuffixModel == <<"m","o","d","e","l">>

SuffixGeometry == <<"g","e","o","m","e","t","r","y">>

\* s.replace(/(Model|Geometry)$/i, ''): one trailing occurrence is removed.
StripExporterSuffix(s) ==
    IF EndsWithNoCase(s, SuffixModel)
    THEN SubSeq(s, 1, Len(s) - Len(SuffixModel))
    ELSE IF EndsWithNoCase(s, SuffixGeometry)
    THEN SubSeq(s, 1, Len(s) - Len(SuffixGeometry))
    ELSE s

\* s.match(/^(.*)\.([lrj])$/i): the text before the final ".l", ".r" or ".j",
\* when the dot of (.*) can match all of it.
StripSideSuffixLowerOnly(s) ==
    IF /\ Len(s) >= 2
       /\ s[Len(s) - 1] = "."
       /\ s[Len(s)] \in {"l", "r", "j"}
       /\ \A i \in 1..(Len(s) - 2) : s[i] \notin LineTerminators
    THEN Trim(SubSeq(s, 1, Len(s) - 2))
    ELSE s

StripSideSuffix(s) ==
    IF /\ Len(s) >= 2
       /\ s[Len(s) - 1] = "."
       /\ ToLowerChar(s[Len(s)]) \in {"l", "r", "j"}
       /\ \A i \in 1..(Len(s) - 2) : s[i] \notin LineTerminators
    THEN Trim(SubSeq(s, 1, Len(s) - 2))
    ELSE s

\* s.replace(/\s+/g, ' ')
RECURSIVE CollapseWhitespace(_)
CollapseWhitespace(s) ==
    IF s = <<>> THEN <<>>
    ELSE IF Head(s) \in WhiteChars
    THEN <<" ">> \o CollapseWhitespace(TrimLeftOf(Tail(s), WhiteChars))
    ELSE <<Head(s)>> \o CollapseWhitespace(Tail(s))

normalizeLabel(raw) ==
    LET s0 == Trim(RemoveNul(raw))
    IN  IF s0 = <<>> THEN <<>>
        ELSE Trim(CollapseWhitespace(StripSideSuffix(Trim(StripExporterSuffix(s0)))))

\* s.replace(/[^a-z0-9]+/g, '_')
RECURSIVE ReplaceNonSlugRuns(_)
ReplaceNonSlugRuns(s) ==
    IF s = <<>> THEN <<>>
    ELSE IF IsSlugChar(Head(s))
    THEN <<Head(s)>> \o ReplaceNonSlugRuns(Tail(s))
    ELSE LET rest == Tail(s)
             skip == CHOOSE n \in 0..Len(rest) :
                        /\ \A i \in 1..n : ~IsSlugChar(rest[i])
                        /\ (n < Len(rest) => IsSlugChar(rest[n + 1]))
         IN  <<"_">> \o ReplaceNonSlugRuns(SubSeq(rest, skip + 1, Len(rest)))

slugify(raw) ==
    LET s == ReplaceNonSlugRuns(ToLowerCase(normalizeLabel(raw)))
    IN  TrimRightOf(TrimLeftOf(s, {"_"}), {"_"})

partKeyFromName(rawName) == slugify(rawName)

\* The empty string ''.
EmptyStr == <<>>

(***************************************************************************)
(* The static catalog and the assets behind it                             *)
(***************************************************************************)
\* const SYSTEMS: the keys of the object literal.
SYSTEMS == {"bones", "muscles", "nerves", "vessels", "organs"}

\* Property names SYSTEMS inherits from Object.prototype: SYSTEMS[k] is a
\* function or an object for them, so !SYSTEMS[k] is false although k is
\* no key of the catalog.
InheritedKeys == {"constructor", "toString"}

\* The test  SYSTEMS[systemKey]  of loadSystem, loadGroups and loadModel.
SystemsLookupTruthy(k) == k \in SYSTEMS \cup InheritedKeys

\* SYSTEMS[k].label, undefined for an inherited property.
Label(k) ==
    CASE k = "bones"   -> "Bones"
      [] k = "muscles" -> "Muscles"
      [] k = "nerves"  -> "Nerves"
      [] k = "vessels" -> "Vessels"
      [] k = "organs"  -> "Organs"
      [] OTHER         -> "undefined"

\* The value null / undefined, where a string is expected.
Null == "null"

\* One metadata entry  k: { name?, variants? } ; variants lists the arrays of
\* Object.values(v.variants) in order.
Entry(k, hasName, name, variants) ==
    [k |-> k, hasName |-> hasName, name |-> name, variants |-> variants]

\* ./meta/muscles_groups.json : two groups that share a member, a later entry
\* whose name derives the first entry's key, and an entry with no key.
MusclesGroups ==
    << Entry(<<"q","u","a","d">>, TRUE, <<"Q","u","a","d">>,
             << << <<"V","L",".","l">> >>,
                << <<"V","L",".","r">>, <<"R","F",".","r">> >> >>),
       Entry(<<"h","i","p">>, FALSE, EmptyStr,
             << << <<"R","F","M","o","d","e","l">>, <<"P","s">> >> >>),
       Entry(<<"q","2">>, TRUE, <<" ","q","u","a","d"," ">>,
             << << <<"V","M">>, <<"-">> >> >>),
       Entry(<<"-","-">>, FALSE, EmptyStr, <<>>) >>

\* ./meta/bones_groups.json
BonesGroups ==
    << Entry(<<"f","e","m","u","r">>, TRUE, <<"F","e","m","u","r">>,
             << << <<"F","e","m","u","r",".","l">> >>,
                << <<"F","e","m","u","r",".","r">> >> >>),
       Entry(<<"h","i","p">>, TRUE, <<"H","i","p">>,
             << << <<"P","e","l","v","i","s">> >> >>) >>

\* What fetchJson(SYSTEMS[k].groups) resolves to.
GroupsJson(k) ==
    CASE k = "muscles" -> MusclesGroups
      [] k = "bones"   -> BonesGroups
      [] OTHER         -> <<>>

(***************************************************************************)
(* Materials: the attributes snapshotMaterial and setMeshState read/write  *)
(***************************************************************************)
\* Opacity is kept in hundredths: 0.07 is 7 and 1.0 is 100.
OpacityDim == 7

OpacityFull == 100

ColorDim == 4473924

ColorBlack == 0

ColorHighlight == 16720418

ColorFallback == 8947848

\* null in place of a THREE.Color (m.color ? m.color.clone() : null).
NullColor == -1

\* A material: color and emissive (hc, he: whether it has them), opacity,
\* transparent, depthWrite and depthTest (hdw, hdt: whether 'in' finds them).
Mat(hc, c, he, e, op, tr, hdw, dw, hdt, dt) ==
    [hasColor |-> hc, color |-> c,
     hasEmissive |-> he, emissive |-> e,
     opacity |-> op, transparent |-> tr,
     hasDepthWrite |-> hdw, depthWrite |-> dw,
     hasDepthTest |-> hdt, depthTest |-> dt,
     needsUpdate |-> FALSE, present |-> TRUE]

\* A missing (null) entry of mesh.material.
NullMaterial ==
    [Mat(FALSE, NullColor, FALSE, NullColor, 0, FALSE, FALSE, FALSE, FALSE, FALSE)
        EXCEPT !.present = FALSE]

\* new THREE.MeshStandardMaterial({ color: 0x888888 })
FallbackMaterial ==
    Mat(TRUE, ColorFallback, TRUE, ColorBlack, OpacityFull, FALSE,
        TRUE, TRUE, TRUE, TRUE)

\* Materials of the loaded assets: an opaque lit one, a translucent unlit one
\* (no emissive) that does not write depth, and a shader material with no
\* color and no emissive whose depth test is off.
ColorMuscle == 9387839

ColorBone == 12568012

MatLit == Mat(TRUE, ColorMuscle, TRUE, ColorBlack, OpacityFull, FALSE,
              TRUE, TRUE, TRUE, TRUE)

MatGlass == Mat(TRUE, ColorBone, FALSE, NullColor, 50, TRUE,
                TRUE, FALSE, TRUE, TRUE)

MatShader == Mat(FALSE, NullColor, FALSE, NullColor, OpacityFull, FALSE,
                 TRUE, TRUE, TRUE, FALSE)

\* A primitive of a loaded model: its name and its material(s).
Prim(name, isMesh, materials) ==
    [name |-> name, isMesh |-> isMesh, materials |-> materials]

\* ./assets/muscles.fbx : left/right instances of one part, a part with an
\* exporter suffix and two materials (one missing), a part no group names,
\* a node that is no mesh, and a mesh whose name normalizes to nothing.
MusclesModel ==
    << Prim(<<"V","L",".","l">>, TRUE, <<MatLit>>),
       Prim(<<"V","L",".","r">>, TRUE, <<MatLit>>),
       Prim(<<"R","o","o","t">>, FALSE, <<>>),
       Prim(<<"R","F","M","o","d","e","l">>, TRUE, <<MatGlass, NullMaterial>>),
       Prim(<<"S","a","r","t">>, TRUE, <<MatShader>>),
       Prim(<<"M","o","d","e","l">>, TRUE, <<MatLit>>) >>

\* ./assets/bones.fbx : the last mesh carries the name of a group that has
\* another member.
BonesModel ==
    << Prim(<<"F","e","m","u","r",".","l">>, TRUE, <<MatGlass>>),
       Prim(<<"P","e","l","v","i","s">>, TRUE, <<MatShader>>),
       Prim(<<"H","i","p">>, TRUE, <<MatLit>>) >>

\* What loader.loadAsync(SYSTEMS[k].fbx) resolves to (root.traverse order).
ModelAsset(k) ==
    CASE k = "muscles" -> MusclesModel
      [] k = "bones"   -> BonesModel
      [] OTHER         -> <<>>

(***************************************************************************)
(* buildGroupIndex                                                         *)
(***************************************************************************)
\* The display name of an entry: v.name.trim() when it is a non-blank
\* string, else String(k).
EntryName(e) ==
    IF e.hasName /\ Len(Trim(e.name)) > 0 THEN Trim(e.name) ELSE e.k

\* The inner loops over Object.values(v.variants): the non-empty slugs.
VariantKeys(e) ==
    UNION { { slugify(e.variants[i][j]) : j \in 1..Len(e.variants[i]) } :
            i \in 1..Len(e.variants) } \ {EmptyStr}

\* One iteration of the loop over the entries, on the index built so far.
AddEntryReplace(index, e) ==
    LET name     == EntryName(e)
        groupKey == slugify(name)
        meshKeys == VariantKeys(e) \cup {groupKey}
    IN  IF groupKey = EmptyStr THEN index
        ELSE [k \in DOMAIN index \cup {groupKey} |->
                IF k = groupKey
                THEN [key |-> groupKey, name |-> name, meshKeys |-> meshKeys]
                ELSE index[k]]

AddEntry(index, e) ==
    LET name     == EntryName(e)
        groupKey == slugify(name)
        meshKeys == VariantKeys(e) \cup {groupKey}
    IN  IF groupKey = EmptyStr THEN index
        ELSE IF groupKey \notin DOMAIN index
        THEN index @@ (groupKey :> [key |-> groupKey, name |-> name,
                                    meshKeys |-> meshKeys])
        ELSE [index EXCEPT ![groupKey].meshKeys = @ \cup meshKeys]

RECURSIVE BuildFrom(_, _, _)
BuildFrom(index, entries, i) ==
    IF i > Len(entries) THEN index
    ELSE BuildFrom(AddEntry(index, entries[i]), entries, i + 1)

\* The empty Map.
EmptyIndex == [k \in {} |-> Null]

\* groupByKey after buildGroupIndex(groupsJson): cleared, then filled.
buildGroupIndex(groupsJson) == BuildFrom(EmptyIndex, groupsJson, 1)

(***************************************************************************)
(* computeSelectedMeshKeys                                                 *)
(***************************************************************************)
\* The body of the loop for one selected key gk, on the set built so far.
AddSelectedNoFallback(out, groups, gk) ==
    IF gk \in DOMAIN groups THEN out \cup groups[gk].meshKeys ELSE out

AddSelected(out, groups, gk) ==
    IF gk \in DOMAIN groups /\ Cardinality(groups[gk].meshKeys) > 0
    THEN out \cup groups[gk].meshKeys
    ELSE out \cup {gk}

RECURSIVE ExpandFrom(_, _, _)
ExpandFrom(out, groups, todo) ==
    IF todo = {} THEN out
    ELSE LET gk == CHOOSE k \in todo : TRUE
         IN  ExpandFrom(AddSelected(out, groups, gk), groups, todo \ {gk})

computeSelectedMeshKeys(selected, groups) == ExpandFrom({}, groups, selected)

(***************************************************************************)
(* snapshotMaterial, ensureUniqueMaterials, setMeshState                   *)
(***************************************************************************)
snapshotMaterial(m) ==
    [hasColor |-> m.hasColor,
     color |-> IF m.hasColor THEN m.color ELSE NullColor,
     hasEmissive |-> m.hasEmissive,
     emissive |-> IF m.hasEmissive THEN m.emissive ELSE NullColor,
     opacity |-> m.opacity,
     transparent |-> m.transparent,
     depthWrite |-> IF m.hasDepthWrite THEN m.depthWrite ELSE TRUE,
     depthTest |-> IF m.hasDepthTest THEN m.depthTest ELSE TRUE]

\* The mesh built from a primitive by the traverse callback of loadModel:
\* its key, its own copies of the materials (a missing one replaced), and
\* the snapshot of each.
ensureUniqueMaterials(materials) ==
    [i \in 1..Len(materials) |->
        IF ~materials[i].present THEN FallbackMaterial ELSE materials[i]]

NewMesh(prim) ==
    LET cloned == ensureUniqueMaterials(prim.materials)
    IN  [name |-> prim.name,
         partKey |-> partKeyFromName(prim.name),
         material |-> cloned,
         matBase |-> [i \in 1..Len(cloned) |-> snapshotMaterial(cloned[i])],
         state |-> "base",
         renderOrder |-> 0]

\* The traverse callback of loadModel over the asset: the meshes in order.
RECURSIVE MeshesOf(_, _)
MeshesOf(asset, i) ==
    IF i > Len(asset) THEN <<>>
    ELSE IF asset[i].isMesh
    THEN <<NewMesh(asset[i])>> \o MeshesOf(asset, i + 1)
    ELSE MeshesOf(asset, i + 1)

\* The branch of setMeshState for state 'base' on one material m with
\* snapshot o.
RestoreBaseNoDepth(m, o) ==
    [m EXCEPT !.color = IF m.hasColor /\ o.color # NullColor THEN o.color ELSE @,
              !.emissive = IF m.hasEmissive /\ o.emissive # NullColor
                           THEN o.emissive ELSE @,
              !.opacity = o.opacity,
              !.transparent = o.transparent]

RestoreBase(m, o) ==
    [m EXCEPT !.color = IF m.hasColor /\ o.color # NullColor THEN o.color ELSE @,
              !.emissive = IF m.hasEmissive /\ o.emissive # NullColor
                           THEN o.emissive ELSE @,
              !.opacity = o.opacity,
              !.transparent = o.transparent,
              !.depthWrite = IF m.hasDepthWrite THEN o.depthWrite ELSE @,
              !.depthTest = IF m.hasDepthTest THEN o.depthTest ELSE @]

\* The branch for 'dim'.
PaintDim(m, o) ==
    [m EXCEPT !.color = IF m.hasColor THEN ColorDim ELSE @,
              !.emissive = IF m.hasEmissive THEN ColorBlack ELSE @,
              !.transparent = TRUE,
              !.opacity = OpacityDim,
              !.depthWrite = IF m.hasDepthWrite THEN FALSE ELSE @,
              !.depthTest = IF m.hasDepthTest THEN TRUE ELSE @]

\* The branch for 'sel'.
PaintSel(m, o) ==
    [m EXCEPT !.color = IF m.hasColor /\ o.color # NullColor THEN o.color ELSE @,
              !.emissive = IF m.hasEmissive THEN ColorHighlight ELSE @,
              !.transparent = FALSE,
              !.opacity = OpacityFull,
              !.depthWrite = IF m.hasDepthWrite THEN TRUE ELSE @,
              !.depthTest = IF m.hasDepthTest THEN TRUE ELSE @]

PaintMaterial(m, o, state) ==
    LET painted == CASE state = "base" -> RestoreBase(m, o)
                     [] state = "dim"  -> PaintDim(m, o)
                     [] state = "sel"  -> PaintSel(m, o)
                     [] OTHER          -> m
    IN  [painted EXCEPT !.needsUpdate = TRUE]

setMeshState(mesh, state) ==
    [mesh EXCEPT
        !.material = [i \in 1..Len(mesh.material) |->
                         PaintMaterial(mesh.material[i], mesh.matBase[i], state)],
        !.state = state,
        !.renderOrder = IF state = "sel" THEN 2 ELSE 0]

(***************************************************************************)
(* applySelectionToMeshes                                                  *)
(***************************************************************************)
\* The state the loop assigns to a mesh with key mk.
StateForNoDim(mk, selectedMeshKeys) ==
    IF mk # EmptyStr /\ mk \in selectedMeshKeys THEN "sel" ELSE "base"

StateFor(mk, selectedMeshKeys) ==
    IF Cardinality(selectedMeshKeys) = 0 THEN "base"
    ELSE IF mk # EmptyStr /\ mk \in selectedMeshKeys THEN "sel"
    ELSE "dim"

\* meshList after applySelectionToMeshes.
Repaint(meshes, selected, groups) ==
    LET selectedMeshKeys == computeSelectedMeshKeys(selected, groups)
    IN  [i \in 1..Len(meshes) |->
            setMeshState(meshes[i], StateFor(meshes[i].partKey, selectedMeshKeys))]

\* The number the status line reports as highlighted_meshes.
Highlighted(meshes, selected, groups) ==
    LET selectedMeshKeys == computeSelectedMeshKeys(selected, groups)
    IN  Cardinality({ i \in 1..Len(meshes) :
            StateFor(meshes[i].partKey, selectedMeshKeys) = "sel" })

(***************************************************************************)
(* Bounds and inputs                                                       *)
(***************************************************************************)
\* The number of loadSystem calls that start a load, the one at startup
\* included.
MaxCalls == 2

\* The keys the system buttons pass to loadSystem: two of the catalog, a name
\* no object has, and a name every object inherits.
SwitchKeys == {"bones", "muscles", "xyz", "constructor"}

KeyQuad == <<"q","u","a","d">>

KeyHip == <<"h","i","p">>

\* The keys toggleGroup is called with from the chips and the integration
\* layer: two group keys and the empty key. (pick adds the keys of meshes,
\* some of which are keys of no group.)
ToggleKeys == {KeyQuad, KeyHip, EmptyStr}

\* How many keys the user has selected at a time, at most.
MaxSelected == 2

\* The assets are read once: what each catalog key's metadata builds and
\* what its model's traverse yields.
GroupIndexOf == [k \in SYSTEMS |-> buildGroupIndex(GroupsJson(k))]

FreshMeshesOf == [k \in SYSTEMS |-> MeshesOf(ModelAsset(k), 1)]

(***************************************************************************)
(* State                                                                   *)
(***************************************************************************)
VARIABLES
    loadToken,          \* let loadToken
    activeSystem,       \* let activeSystem
    selectedGroupKeys,  \* let selectedGroupKeys (a Set)
    groupByKey,         \* let groupByKey (a Map)
    modelRoot,          \* let modelRoot: the call whose model it is, 0 for null
    meshList,           \* let meshList
    meshByKey,          \* let meshByKey: key -> indices into meshList
    calls,              \* the loadSystem calls that started a load
    status,             \* el.status.textContent
    loading,            \* el.loading: the overlay and its text
    lastOp,             \* the handler that ran last, and what it met
    selTouched,         \* a toggle changed the selection since the last switch
    probe,              \* one mesh under setMeshState alone
    tg,                 \* one selection under toggleGroup alone
    str,                \* one string under slugify alone
    panel,              \* the chips panel of viewer.js over one metadata file
    search,             \* the search chips of the multi-system variant
    multi               \* the scene and the loaded map of that variant

viewer == <<loadToken, activeSystem, selectedGroupKeys, groupByKey, modelRoot,
            meshList, meshByKey, calls, status, loading, lastOp, selTouched>>

\* The parts studied on their own.
studies == <<probe, tg, str, panel, search, multi>>

vars == <<viewer, studies>>

\* The shared state a completion may or may not touch.
shared == <<groupByKey, meshList, meshByKey, modelRoot, selectedGroupKeys>>

Op(op, stale) == [op |-> op, stale |-> stale]

\* setStatus(`Switching to ${label}…`)
StatusSwitching(k) ==
    [kind |-> "switching", label |-> Label(k), meshes |-> 0, groups |-> 0,
     highlighted |-> 0]

\* What the message of an error names: the key for an unknown system, the
\* file of the system for an HTTP error, nothing for a network error, a
\* body that is no JSON or an error of the loader.
ErrorNames(err, k) == IF err \in {"unknown", "http"} THEN k ELSE ""

\* The status a catch writes: setStatus(`❌ ${String(err)}`) in the click
\* handler of a system button (origin "click"), and
\* setStatus(`❌ Failed to start: ${String(err?.message || err)}`) at the
\* module's top level (origin "start"). err is the error thrown.
StatusError(origin, err, k) ==
    [kind |-> "error", label |-> ErrorNames(err, k), meshes |-> 0,
     groups |-> 0, highlighted |-> 0, origin |-> origin, err |-> err]

\* The errors fetchJson rejects with: fetch fails (a TypeError), the
\* response is not ok (Error: <status> <statusText> for <url>), or the body
\* is no JSON and res.json() rejects (a SyntaxError).
FetchErrors == {"network", "http", "parse"}

\* The status line applySelectionToMeshes writes.
StatusCounts(sys, meshes, selected, groups) ==
    [kind |-> "counts", label |-> Label(sys), meshes |-> Len(meshes),
     groups |-> Cardinality(selected),
     highlighted |-> Highlighted(meshes, selected, groups)]

\* setLoading(show, msg)
setLoading(show, msg, label) == [show |-> show, msg |-> msg, label |-> label]

\* A loadSystem call past its first await. pc: "groups" while fetchJson is
\* pending, "model" while loadAsync is pending, "done" or "failed" after.
\* resolved and disposed follow the model object the call's loadAsync gave:
\* whether it exists and how often disposeObject was called on it.
\* prevSys and cleanStart record what the call found: the active system, and
\* whether every earlier load had completed. origin is the caller, whose
\* catch reports a rejection: "start" for the top level, "click" for a button.
Call(sys, token, prevSys, cleanStart, origin) ==
    [sys |-> sys, token |-> token, pc |-> "groups", resolved |-> FALSE,
     disposed |-> 0, prevSys |-> prevSys, cleanStart |-> cleanStart,
     origin |-> origin]

\* The test  token !== loadToken  of loadGroups and loadModel.
IsStaleNever(token, current) == FALSE

IsStale(token, current) == token # current

\* ++loadToken in loadSystem.
SameToken(current) == current

NextToken(current) == current + 1

\* selectedGroupKeys.clear() in loadSystem.
SelectionKept(selected) == selected

SelectionAfterSwitch(selected) == {}

\* The module's top level: the declarations, then loadSystem(activeSystem)
\* up to its first await.
InitViewer ==
    /\ loadToken = 1
    /\ activeSystem = "muscles"
    /\ selectedGroupKeys = {}
    /\ groupByKey = EmptyIndex
    /\ modelRoot = 0
    /\ meshList = <<>>
    /\ meshByKey = EmptyIndex
    /\ calls = <<Call("muscles", 1, "muscles", TRUE, "start")>>
    /\ status = StatusSwitching("muscles")
    /\ loading = setLoading(TRUE, "metadata", Label("muscles"))
    /\ lastOp = Op("loadSystem", FALSE)
    /\ selTouched = FALSE

(***************************************************************************)
(* loadSystem, loadGroups, loadModel                                       *)
(***************************************************************************)
\* The click handler of a system button, to the first await of loadGroups;
\* a throw is caught by the handler's catch, which sets the status.
LoadSystem(k) ==
    /\ Len(calls) < MaxCalls
    /\ IF ~SystemsLookupTruthy(k)
       THEN /\ status' = StatusError("click", "unknown", k)
            /\ lastOp' = Op("loadSystemThrow", FALSE)
            /\ UNCHANGED <<loadToken, activeSystem, selectedGroupKeys,
                           groupByKey, modelRoot, meshList, meshByKey, calls,
                           loading, selTouched>>
       ELSE /\ activeSystem' = k
            /\ selectedGroupKeys' = SelectionAfterSwitch(selectedGroupKeys)
            /\ status' = StatusSwitching(k)
            /\ loadToken' = NextToken(loadToken)
            /\ loading' = setLoading(TRUE, "metadata", Label(k))
            /\ calls' = Append(calls,
                    Call(k, NextToken(loadToken), activeSystem,
                         \A d \in 1..Len(calls) : calls[d].pc = "done",
                         "click"))
            /\ lastOp' = Op("loadSystem", FALSE)
            /\ selTouched' = FALSE
            /\ UNCHANGED <<groupByKey, modelRoot, meshList, meshByKey>>

\* fetchJson resolves: the rest of loadGroups, then loadModel to its await.
GroupsResolve(c) ==
    /\ calls[c].pc = "groups"
    /\ calls[c].sys \in SYSTEMS
    /\ groupByKey' = IF IsStale(calls[c].token, loadToken) THEN groupByKey
                     ELSE GroupIndexOf[calls[c].sys]
    /\ loading' = setLoading(TRUE, "model", Label(calls[c].sys))
    /\ calls' = [calls EXCEPT ![c].pc = "model"]
    /\ lastOp' = Op("groupsResolve", calls[c].token # loadToken)
    /\ UNCHANGED <<loadToken, activeSystem, selectedGroupKeys, modelRoot,
                   meshList, meshByKey, status, selTouched>>

\* fetchJson rejects with err: loadGroups and loadSystem reject, and the
\* catch of the caller reports.
GroupsReject(c, err) ==
    /\ calls[c].pc = "groups"
    /\ calls' = [calls EXCEPT ![c].pc = "failed"]
    /\ status' = StatusError(calls[c].origin, err, calls[c].sys)
    /\ lastOp' = Op("groupsReject", calls[c].token # loadToken)
    /\ UNCHANGED <<loadToken, activeSystem, selectedGroupKeys, groupByKey,
                   modelRoot, meshList, meshByKey, loading, selTouched>>

\* disposeObject(root) on the model of call d (0: null, nothing happens).
disposeNothing(cs, d) == cs

disposeObject(cs, d) ==
    IF d = 0 THEN cs ELSE [cs EXCEPT ![d].disposed = @ + 1]

\* meshByKey as the traverse callback fills it: every key, the empty one
\* included, to the indices of its meshes in discovery order.
RECURSIVE IndicesOf(_, _, _)
IndicesOf(meshes, key, i) ==
    IF i > Len(meshes) THEN <<>>
    ELSE IF meshes[i].partKey = key
    THEN <<i>> \o IndicesOf(meshes, key, i + 1)
    ELSE IndicesOf(meshes, key, i + 1)

BuildMeshByKey(meshes) ==
    [key \in { meshes[i].partKey : i \in 1..Len(meshes) } |->
        IndicesOf(meshes, key, 1)]

\* loadAsync resolves: the rest of loadModel.
ModelResolve(c) ==
    /\ calls[c].pc = "model"
    /\ lastOp' = Op("modelResolve", calls[c].token # loadToken)
    /\ IF IsStale(calls[c].token, loadToken)
       THEN /\ calls' = disposeObject(
                    [calls EXCEPT ![c].pc = "done", ![c].resolved = TRUE], c)
            /\ UNCHANGED <<modelRoot, meshList, meshByKey, loading, status>>
       ELSE LET meshes == FreshMeshesOf[calls[c].sys]
            IN  /\ calls' = disposeObject(
                        [calls EXCEPT ![c].pc = "done", ![c].resolved = TRUE],
                        modelRoot)
                /\ modelRoot' = c
                /\ meshList' = Repaint(meshes, selectedGroupKeys, groupByKey)
                /\ meshByKey' = BuildMeshByKey(meshes)
                /\ loading' = setLoading(FALSE, "default", "")
                /\ status' = StatusCounts(activeSystem, meshes,
                                          selectedGroupKeys, groupByKey)
    /\ UNCHANGED <<loadToken, activeSystem, selectedGroupKeys, groupByKey,
                   selTouched>>

\* loadAsync rejects: loadModel and loadSystem reject, and the catch of the
\* caller reports the loader's error.
ModelReject(c) ==
    /\ calls[c].pc = "model"
    /\ calls' = [calls EXCEPT ![c].pc = "failed"]
    /\ status' = StatusError(calls[c].origin, "loader", calls[c].sys)
    /\ lastOp' = Op("modelReject", calls[c].token # loadToken)
    /\ UNCHANGED <<loadToken, activeSystem, selectedGroupKeys, groupByKey,
                   modelRoot, meshList, meshByKey, loading, selTouched>>

(***************************************************************************)
(* toggleGroup, clearSelection, pick                                       *)
(***************************************************************************)
\* selectedGroupKeys after the first two statements of toggleGroup(key).
ToggleSelAddOnly(selected, key) == selected \cup {key}

ToggleSel(selected, key) ==
    IF key \in selected THEN selected \ {key} ELSE selected \cup {key}

\* selectedGroupKeys after toggleGroup(key), which returns at once on ''.
toggleGroupSel(selected, key) ==
    IF key = EmptyStr THEN selected ELSE ToggleSel(selected, key)

\* toggleGroup(key), as the step named op.
ToggleStep(key, op) ==
    IF key = EmptyStr
    THEN /\ lastOp' = Op("toggleEmpty", FALSE)
         /\ UNCHANGED <<loadToken, activeSystem, selectedGroupKeys,
                        groupByKey, modelRoot, meshList, meshByKey, calls,
                        status, loading, selTouched>>
    ELSE LET sel == toggleGroupSel(selectedGroupKeys, key)
         IN  /\ Cardinality(sel) <= MaxSelected
             /\ selectedGroupKeys' = sel
             /\ meshList' = Repaint(meshList, sel, groupByKey)
             /\ status' = StatusCounts(activeSystem, meshList, sel, groupByKey)
             /\ lastOp' = Op(op, FALSE)
             /\ selTouched' = TRUE
             /\ UNCHANGED <<loadToken, activeSystem, groupByKey, modelRoot,
                            meshByKey, calls, loading>>

ToggleGroup(key) == ToggleStep(key, "toggle")

ClearSelection ==
    /\ selectedGroupKeys' = {}
    /\ meshList' = Repaint(meshList, {}, groupByKey)
    /\ status' = StatusCounts(activeSystem, meshList, {}, groupByKey)
    /\ lastOp' = Op("clear", FALSE)
    /\ UNCHANGED <<loadToken, activeSystem, groupByKey, modelRoot, meshByKey,
                   calls, loading, selTouched>>

\* pick(x, y) when raycaster.intersectObjects gives no hit: it returns.
PickMissClears ==
    /\ selectedGroupKeys' = {}
    /\ meshList' = Repaint(meshList, {}, groupByKey)
    /\ status' = StatusCounts(activeSystem, meshList, {}, groupByKey)
    /\ lastOp' = Op("pickNone", FALSE)
    /\ UNCHANGED <<loadToken, activeSystem, groupByKey, modelRoot, meshByKey,
                   calls, loading, selTouched>>

PickMiss ==
    /\ lastOp' = Op("pickNone", FALSE)
    /\ UNCHANGED <<loadToken, activeSystem, selectedGroupKeys, groupByKey,
                   modelRoot, meshList, meshByKey, calls, status, loading,
                   selTouched>>

\* userData.partKey || partKeyFromName(name): the key of the hit mesh.
PickKey(mesh) ==
    IF mesh.partKey # EmptyStr THEN mesh.partKey
    ELSE partKeyFromName(mesh.name)

\* pick(x, y) when the ray hits mesh i of meshList first; hit = 0: no hit.
Pick(hit) ==
    IF hit = 0 THEN PickMiss
    ELSE ToggleStep(PickKey(meshList[hit]), "pick")

\* No mesh and no selection are under separate study.
ProbeIdle ==
    [mesh |-> NewMesh(Prim(EmptyStr, TRUE, <<>>)), prev |-> "none",
     loaded |-> <<>>]

TgIdle == [s0 |-> {}, key |-> EmptyStr, s1 |-> {}, s |-> {}, step |-> 0]

StrIdle ==
    [base |-> EmptyStr, tail |-> EmptyStr, first |-> EmptyStr,
     cur |-> EmptyStr, step |-> 0]

PanelIdle ==
    [groupsJson |-> <<>>, index |-> EmptyIndex, chips |-> <<>>,
     filter |-> EmptyStr, loaded |-> FALSE]

SearchIdle ==
    [groups |-> <<>>, cached |-> FALSE, value |-> EmptyStr, pending |-> <<>>,
     chips |-> <<>>]

\* The multi-system page with nothing loaded and no load started.
MultiIdle ==
    [loads |-> <<>>, loaded |-> [k \in SYSTEMS |-> 0], scene |-> {},
     disposed |-> {},
     startup |-> [stage |-> "idle", load |-> 0], selection |-> 0,
     chipsCalls |-> 0]

Init ==
    /\ InitViewer /\ multi = MultiIdle
    /\ probe = ProbeIdle /\ tg = TgIdle /\ str = StrIdle
    /\ panel = PanelIdle /\ search = SearchIdle

Next ==
    \/ \E k \in SwitchKeys : LoadSystem(k) /\ UNCHANGED studies
    \/ \E c \in 1..Len(calls) : GroupsResolve(c) /\ UNCHANGED studies
    \/ \E c \in 1..Len(calls), err \in FetchErrors :
            GroupsReject(c, err) /\ UNCHANGED studies
    \/ \E c \in 1..Len(calls) : ModelResolve(c) /\ UNCHANGED studies
    \/ \E c \in 1..Len(calls) : ModelReject(c) /\ UNCHANGED studies
    \/ \E k \in ToggleKeys : ToggleGroup(k) /\ UNCHANGED studies
    \/ ClearSelection /\ UNCHANGED studies
    \/ \E hit \in 0..Len(meshList) : Pick(hit) /\ UNCHANGED studies

Spec == Init /\ [][Next]_vars

(***************************************************************************)
(* setMeshState on one mesh, for every material shape                      *)
(***************************************************************************)
\* The values a material of a loaded asset may carry: a color or none (the
\* dim tone among the colors), an emissive or none (the highlight among
\* them), three opacities, and depth flags present or absent.
MaterialSpace ==
    { Mat(c # NullColor, c, e # NullColor, e, o, t, dw[1], dw[2], dt[1], dt[2]) :
        c \in {NullColor, ColorMuscle, ColorDim},
        e \in {NullColor, ColorBlack, ColorHighlight},
        o \in {OpacityDim, 50, OpacityFull},
        t \in BOOLEAN,
        dw \in {<<FALSE, FALSE>>, <<TRUE, FALSE>>, <<TRUE, TRUE>>},
        dt \in {<<FALSE, FALSE>>, <<TRUE, FALSE>>, <<TRUE, TRUE>>} }

\* A mesh as loadModel leaves it before the first repaint: one material of
\* the space, or a missing material beside one.
InitMaterial ==
    /\ InitViewer /\ multi = MultiIdle
    /\ tg = TgIdle /\ str = StrIdle /\ panel = PanelIdle /\ search = SearchIdle
    /\ \E m \in MaterialSpace : \E two \in BOOLEAN :
          LET mesh == NewMesh(Prim(<<"V","L",".","l">>, TRUE,
                                   IF two THEN <<NullMaterial, m>> ELSE <<m>>))
          IN  probe = [mesh |-> mesh, prev |-> "none",
                       loaded |-> mesh.material]

MeshStates == {"base", "dim", "sel"}

SetProbeState(state) ==
    /\ probe' = [probe EXCEPT !.mesh = setMeshState(probe.mesh, state),
                              !.prev = probe.mesh.state]
    /\ UNCHANGED <<viewer, tg, str, panel, search, multi>>

NextMaterial == \E state \in MeshStates : SetProbeState(state)

SpecMaterial == InitMaterial /\ [][NextMaterial]_vars

(***************************************************************************)
(* toggleGroup on one selection, for every selection and key               *)
(***************************************************************************)
KeyVl == <<"v","l">>

KeyRf == <<"r","f">>

\* A selection of some keys and a key to toggle, the empty key included.
InitToggle ==
    /\ InitViewer /\ multi = MultiIdle
    /\ probe = ProbeIdle /\ str = StrIdle /\ panel = PanelIdle
    /\ search = SearchIdle
    /\ \E s0 \in SUBSET {KeyQuad, KeyHip, KeyVl, KeyRf} :
       \E k \in {KeyQuad, KeyHip, KeyVl, KeyRf, EmptyStr} :
          tg = [s0 |-> s0, key |-> k, s1 |-> s0, s |-> s0, step |-> 0]

\* toggleGroup(tg.key) once more, twice at most.
ToggleAgain ==
    /\ tg.step < 2
    /\ tg' = [tg EXCEPT !.s = toggleGroupSel(tg.s, tg.key),
                        !.s1 = IF tg.step = 0
                               THEN toggleGroupSel(tg.s, tg.key) ELSE @,
                        !.step = @ + 1]
    /\ UNCHANGED <<viewer, probe, str, panel, search, multi>>

NextToggle == ToggleAgain

SpecToggle == InitToggle /\ [][NextToggle]_vars

(***************************************************************************)
(* slugify on one string, once and again                                   *)
(***************************************************************************)
\* The length of the base names made of BaseChars, at most.
MaxBaseLen == 2

\* Characters of a base name: a lower-case letter, an upper-case one that is
\* also a side marker, a digit, a separator, a break and U+0000.
BaseChars == {"a", "L", "7", "_", " ", NulChar}

RECURSIVE StringsOver(_, _)
StringsOver(chars, n) ==
    IF n = 0 THEN {<<>>}
    ELSE LET shorter == StringsOver(chars, n - 1)
         IN  shorter \cup { <<c>> \o t : c \in chars, t \in { u \in shorter : Len(u) = n - 1 } }

\* Names of parts as the exporter writes them, an exporter suffix among them.
NamedBases ==
    { <<"Q","u","a","d","r","i","c","e","p","s">>,
      <<"B","i","c","e","p","s","B","r","a","c","h","i","i">>,
      <<"M","o","d","e","l">>,
      <<"g","e","o","m","e","t","r","y">>,
      <<"R","e","m","o","d","e","l">> }

\* What follows the base: side markers, exporter suffixes, a dot and a break.
TailTokens ==
    { <<".","L">>, <<".","l">>, <<".","r">>, <<".","j">>, <<".","x">>,
      <<"M","o","d","e","l">>,
      <<"G","e","o","m","e","t","r","y">>,
      <<"m","o","d","e","l">>, <<" ">>, <<".">> }

\* No token, one token, or two.
Tails == {EmptyStr} \cup TailTokens \cup { t \o u : t, u \in TailTokens }

\* A name: a base and what follows it; nothing is computed yet.
InitNormalize ==
    /\ InitViewer /\ multi = MultiIdle
    /\ probe = ProbeIdle /\ tg = TgIdle /\ panel = PanelIdle
    /\ search = SearchIdle
    /\ \E b \in StringsOver(BaseChars, MaxBaseLen) \cup NamedBases :
       \E t \in Tails :
          str = [base |-> b, tail |-> t, first |-> b \o t, cur |-> b \o t,
                 step |-> 0]

\* partKeyFromName on the result so far, twice at most.
NormalizeAgain ==
    /\ str.step < 2
    /\ str' = [str EXCEPT !.cur = partKeyFromName(str.cur),
                          !.first = IF str.step = 0
                                    THEN partKeyFromName(str.cur) ELSE @,
                          !.step = @ + 1]
    /\ UNCHANGED <<viewer, probe, tg, panel, search, multi>>

NextNormalize == NormalizeAgain

SpecNormalize == InitNormalize /\ [][NextNormalize]_vars

(***************************************************************************)
(* The chips panel of viewer.js: renderChips and applyFilter               *)
(***************************************************************************)
\* The entries of the metadata files under study, at most.
MaxEntries == 2

\* Entries a metadata file may hold: names that derive the same key, entries
\* without a name or with a blank one, entries that derive no key, names of
\* different lengths.
EntryPool ==
    { Entry(<<"q","u","a","d">>, TRUE, <<"Q","u","a","d">>,
            <<<< <<"V","L",".","l">> >>>>),
      Entry(<<"q","2">>, TRUE, <<" ","q","u","a","d"," ">>,
            <<<< <<"V","M">>, <<"-">> >>>>),
      Entry(<<"Q","U","A","D",".","L">>, FALSE, EmptyStr,
            <<<< <<"R","F">> >>, << <<"R","F","M","o","d","e","l">> >>>>),
      Entry(<<"h","i","p">>, FALSE, EmptyStr,
            <<<< <<"R","F","M","o","d","e","l">>, <<"P","s">> >>>>),
      Entry(<<"-","-">>, FALSE, EmptyStr,
            <<>>),
      Entry(<<"x">>, TRUE, <<" "," ">>,
            <<<< <<"V","L",".","r">> >>>>),
      Entry(<<"a","b">>, TRUE, <<"A","b","d","u","c","t","o","r">>,
            <<>>),
      Entry(<<"e">>, TRUE, <<"M","o","d","e","l">>,
            <<<< <<"Z","e","d">> >>>>) }

\* The files of n entries at most, in every order; an object has each
\* property once. (No key looks like an integer, so Object.entries keeps
\* the order of the file.)
RECURSIVE MetaFiles(_)
MetaFiles(n) ==
    IF n = 0 THEN {<<>>}
    ELSE LET shorter == MetaFiles(n - 1)
         IN  shorter \cup
             UNION { { Append(f, e) :
                        e \in { x \in EntryPool :
                                  \A i \in 1..Len(f) : f[i].k # x.k } } :
                     f \in { g \in shorter : Len(g) = n - 1 } }

MetaSpace == MetaFiles(MaxEntries) \cup {MusclesGroups, BonesGroups}

\* The number of chips the multi-system variant shows, at most.
ChipLimit == 140

\* What the user types into the filter box.
QueryPool ==
    { EmptyStr, <<"q","u">>, <<"Q","U","A","D",".","l">>, <<" ">>, <<"h","i","p">>,
      <<"a">>, <<"x">>, <<"M","o","d","e","l">> }

DigitSeq == <<"0","1","2","3","4","5","6","7","8","9">>

\* The characters of the names in the order the collation of localeCompare
\* gives them: white space, punctuation, digits, letters.
CollationOrder ==
    <<"\t", "\n", " ", "_", "-", ".">> \o DigitSeq \o LowerChars

\* The primary weight of a character: its place, whatever its case.
PrimaryWeights ==
    [c \in { CollationOrder[i] : i \in 1..Len(CollationOrder) }
            \cup { UpperChars[i] : i \in 1..Len(UpperChars) } |->
        IndexIn(ToLowerChar(c), CollationOrder)]

PrimaryWeight(c) == PrimaryWeights[c]

\* a.localeCompare(b, undefined, { sensitivity: 'base' }): -1, 0 or 1.
RECURSIVE localeCompareBase(_, _)
localeCompareBase(a, b) ==
    IF a = <<>> THEN (IF b = <<>> THEN 0 ELSE -1)
    ELSE IF b = <<>> THEN 1
    ELSE IF PrimaryWeight(Head(a)) < PrimaryWeight(Head(b)) THEN -1
    ELSE IF PrimaryWeight(Head(a)) > PrimaryWeight(Head(b)) THEN 1
    ELSE localeCompareBase(Tail(a), Tail(b))

\* The case level of two names of equal primary weights: lower case first
\* at the first place where they differ.
RECURSIVE CompareCase(_, _)
CompareCase(a, b) ==
    IF a = <<>> \/ b = <<>> THEN 0
    ELSE IF Head(a) = Head(b) THEN CompareCase(Tail(a), Tail(b))
    ELSE IF IsUpper(Head(a)) THEN 1 ELSE -1

\* a.localeCompare(b)
localeCompare(a, b) ==
    IF localeCompareBase(a, b) # 0 THEN localeCompareBase(a, b)
    ELSE CompareCase(a, b)

\* The comparators of the two sorts: by name, and by length, then name.
CompareNames(order, a, b) ==
    IF order = "base" THEN localeCompareBase(a.name, b.name)
    ELSE IF Len(a.name) # Len(b.name) THEN Len(a.name) - Len(b.name)
    ELSE localeCompare(a.name, b.name)

\* Array.prototype.sort, which is stable: an item comes after the items
\* that compare less and after the earlier items that compare equal.
SortRanks(order, items, n) ==
    [i \in 1..n |->
        Cardinality({ j \in 1..n :
            \/ CompareNames(order, items[j], items[i]) < 0
            \/ /\ CompareNames(order, items[j], items[i]) = 0
               /\ j < i })]

PlaceByRank(items, rank, n) ==
    [r \in 1..n |-> items[CHOOSE i \in 1..n : rank[i] = r - 1]] \o <<>>

SortItems(order, items, n) ==
    PlaceByRank(items, SortRanks(order, items, n) \o <<>>, n)

SortNames(order, items) == SortItems(order, items \o <<>>, Len(items))

\* Array.from(groupByKey.values()): the groups in the order their keys were
\* first set.
RECURSIVE MapValues(_, _, _, _)
MapValues(index, groupsJson, i, seen) ==
    IF i > Len(groupsJson) THEN <<>>
    ELSE LET k == slugify(EntryName(groupsJson[i]))
         IN  IF k = EmptyStr \/ k \in seen
             THEN MapValues(index, groupsJson, i + 1, seen)
             ELSE <<index[k]>> \o
                  MapValues(index, groupsJson, i + 1, seen \cup {k})

\* String.prototype.includes
Includes(s, q) ==
    \E i \in 0..(Len(s) - Len(q)) : SubSeq(s, i + 1, i + Len(q)) = q

\* applyFilter(text) on the chips of the panel.
applyFilter(chips, text) ==
    LET q == slugify(text)
    IN  [i \in 1..Len(chips) |->
            [chips[i] EXCEPT !.hidden =
                IF q = EmptyStr THEN FALSE ELSE ~Includes(chips[i].search, q)]]

\* renderChips(): a chip for every group, sorted by name, then the filter.
renderChips(index, groupsJson, text) ==
    LET groups == SortNames("base", MapValues(index, groupsJson, 1, {}))
    IN  applyFilter([i \in 1..Len(groups) |->
                        [key |-> groups[i].key, name |-> groups[i].name,
                         search |-> slugify(groups[i].name),
                         hidden |-> FALSE]],
                    text)

\* A metadata file not fetched yet, an empty filter box.
InitPanel ==
    /\ InitViewer /\ multi = MultiIdle
    /\ probe = ProbeIdle /\ tg = TgIdle /\ str = StrIdle
    /\ search = SearchIdle
    /\ \E f \in MetaSpace : panel = [PanelIdle EXCEPT !.groupsJson = f]

\* loadGroups after a fetch with the current token: buildGroupIndex, then
\* renderChips.
PanelLoadGroups ==
    /\ ~panel.loaded
    /\ panel' = [panel EXCEPT
            !.index = buildGroupIndex(panel.groupsJson),
            !.chips = renderChips(buildGroupIndex(panel.groupsJson),
                                  panel.groupsJson, panel.filter),
            !.loaded = TRUE]
    /\ UNCHANGED <<viewer, probe, tg, str, search, multi>>

\* The input event of the filter box.
PanelFilterInput(text) ==
    /\ panel' = [panel EXCEPT !.filter = text,
                              !.chips = applyFilter(panel.chips, text)]
    /\ UNCHANGED <<viewer, probe, tg, str, search, multi>>

\* The click on the clear-filter button.
PanelClearFilter ==
    /\ panel' = [panel EXCEPT !.filter = EmptyStr,
                              !.chips = applyFilter(panel.chips, EmptyStr)]
    /\ UNCHANGED <<viewer, probe, tg, str, search, multi>>

NextPanel ==
    \/ PanelLoadGroups
    \/ \E text \in QueryPool : PanelFilterInput(text)
    \/ PanelClearFilter

SpecPanel == InitPanel /\ [][NextPanel]_vars

(***************************************************************************)
(* The search chips of the multi-system variant: renderChipsFromSearch     *)
(***************************************************************************)
\* The calls of renderChipsFromSearch that wait for the metadata, at most.
MaxPending == 2

\* The decimal digits of a positive number.
RECURSIVE DigitsOf(_)
DigitsOf(n) ==
    IF n < 10 THEN <<DigitSeq[n + 1]>>
    ELSE DigitsOf(n \div 10) \o <<DigitSeq[(n % 10) + 1]>>

\* A file with one entry more than the panel shows: g1: {name: "1"}, ...
BigFile ==
    [i \in 1..(ChipLimit + 1) |->
        Entry(<<"g">> \o DigitsOf(i), TRUE, DigitsOf(i), <<>>)]

\* A file whose raw keys differ from what the names derive.
SearchFile ==
    << Entry(<<"q","u","a","d">>, TRUE, <<"Q","u","a","d","r","i","c","e","p","s">>,
            <<<< <<"V","L",".","l">> >>>>),
       Entry(<<"q","2">>, TRUE, <<"V","a","s","t","u","s">>,
            <<<< <<"V","M">> >>>>),
       Entry(<<"h","i","p">>, FALSE, EmptyStr,
            <<<< <<"P","s">> >>>>),
       Entry(<<"a","b">>, TRUE, <<"A","b","d","u","c","t","o","r",".","L">>,
            <<>>) >>

SearchFiles == {MusclesGroups, SearchFile, BigFile}

\* What the user types into the search box.
SearchQueries == { EmptyStr, <<"q","u">>, <<"q","2">>, <<"Q","U","A","D",".","l">> }

\* (searchEl.value || '').trim().toLowerCase()
SearchQuery(text) == ToLowerCase(Trim(text))

\* v.name || k
SearchName(e) == IF e.hasName /\ e.name # EmptyStr THEN e.name ELSE e.k

\* The items of a file that pass the filter, in the order of the file.
SearchFiltered(groups, q) ==
    LET items == [i \in 1..Len(groups) |->
                    [key |-> groups[i].k, name |-> SearchName(groups[i])]]
    IN  IF q = EmptyStr THEN items
        ELSE SelectSeq(items, LAMBDA it :
                \/ Includes(ToLowerCase(it.name), q)
                \/ Includes(it.key, q))

\* filtered.slice(0, 140)
Slice(items) ==
    IF Len(items) > ChipLimit THEN SubSeq(items, 1, ChipLimit) ELSE items

\* The chips one call appends: filtered, sorted shortest first, sliced.
SearchListed(groups, q) == Slice(SortNames("length", SearchFiltered(groups, q)))

\* The lists are computed once per file and query.
SearchListedOf ==
    [f \in SearchFiles |->
        [q \in { SearchQuery(t) : t \in SearchQueries } |-> SearchListed(f, q)]]

RemoveAt(seq, i) == SubSeq(seq, 1, i - 1) \o SubSeq(seq, i + 1, Len(seq))

\* The page before any call of renderChipsFromSearch: nothing cached.
InitSearch ==
    /\ InitViewer /\ multi = MultiIdle
    /\ probe = ProbeIdle /\ tg = TgIdle /\ str = StrIdle
    /\ panel = PanelIdle
    /\ \E f \in SearchFiles : search = [SearchIdle EXCEPT !.groups = f]

\* renderChipsFromSearch() with text in the search box: the chips are
\* cleared; with the metadata cached the await resumes before any other
\* event and the chips are appended, else the call waits for its fetch.
SearchRenderStart(text) ==
    /\ search.cached \/ Len(search.pending) < MaxPending
    /\ search' =
          IF search.cached
          THEN [search EXCEPT
                    !.value = text,
                    !.chips = SearchListedOf[search.groups][SearchQuery(text)]]
          ELSE [search EXCEPT
                    !.value = text,
                    !.chips = <<>>,
                    !.pending = Append(@, SearchQuery(text))]
    /\ UNCHANGED <<viewer, probe, tg, str, panel, multi>>

\* The input event of the search box.
SearchInput(text) == SearchRenderStart(text)

\* The click on the clear-search button.
SearchClear == SearchRenderStart(EmptyStr)

\* The calls made after a system is loaded and at the end of the start-up.
SearchRefresh == SearchRenderStart(search.value)

\* The fetch of a waiting call resolves: ensureGroups caches the file and
\* the call appends its chips to whatever the panel holds.
SearchRenderFinish(i) ==
    /\ search' = [search EXCEPT
            !.cached = TRUE,
            !.chips = @ \o SearchListedOf[search.groups][search.pending[i]],
            !.pending = RemoveAt(@, i)]
    /\ UNCHANGED <<viewer, probe, tg, str, panel, multi>>

\* The fetch of a waiting call rejects: the call ends there.
SearchFetchFail(i) ==
    /\ search' = [search EXCEPT !.pending = RemoveAt(@, i)]
    /\ UNCHANGED <<viewer, probe, tg, str, panel, multi>>

NextSearch ==
    \/ \E text \in SearchQueries : SearchInput(text)
    \/ SearchClear
    \/ SearchRefresh
    \/ \E i \in 1..Len(search.pending) : SearchRenderFinish(i)
    \/ \E i \in 1..Len(search.pending) : SearchFetchFail(i)

SpecSearch == InitSearch /\ [][NextSearch]_vars

(***************************************************************************)
(* The systems of the multi-system variant (src/unnamed/part_000): the     *)
(* scene, the map  loaded  and the loads in flight. A root is named by the *)
(* position of its load in multi.loads; multi.loaded[k] is the root the    *)
(* map records for k, 0 when the map has no entry for k.                   *)
(***************************************************************************)
\* The loads of one run, the two of the start-up included.
MaxLoads == 3

\* The data-sys of the system buttons clicked, one of them naming no system.
MultiButtons == {"bones", "muscles", "xyz"}

\* The system whose load refreshes the search chips.
currentSystemForSearch == "muscles"

\* loaded.has(k).
LoadedHas(m, k) == m.loaded[k] # 0

\* loadSystem(k) up to its await: nothing when the map has k, else a new
\* load in flight.
StartLoad(m, k) ==
    IF LoadedHas(m, k) THEN m
    ELSE [m EXCEPT !.loads = Append(@, [sys |-> k, pc |-> "loading"])]

\* unloadSystem(k): the selection is cleared, the recorded root leaves the
\* scene and is disposed, the entry is deleted.
unloadSystem(m, k) ==
    IF ~LoadedHas(m, k) THEN m
    ELSE [m EXCEPT !.selection = 0,
                   !.scene = @ \ {m.loaded[k]},
                   !.disposed = @ \cup {m.loaded[k]},
                   !.loaded[k] = 0]

\* The page as the script ends: the start-up has called loadSystem('bones')
\* and waits for it.
InitMulti ==
    /\ InitViewer
    /\ probe = ProbeIdle /\ tg = TgIdle /\ str = StrIdle
    /\ panel = PanelIdle /\ search = SearchIdle
    /\ multi = [StartLoad(MultiIdle, "bones") EXCEPT
                    !.startup = [stage |-> "bones", load |-> 1]]

\* The loads the start-up has still to issue.
StartupReserve == IF multi.startup.stage = "bones" THEN 1 ELSE 0

\* The click on a system button.
MultiClick(k) ==
    /\ IF ~SystemsLookupTruthy(k) THEN multi' = multi
       ELSE IF LoadedHas(multi, k) THEN multi' = unloadSystem(multi, k)
       ELSE /\ Len(multi.loads) + StartupReserve < MaxLoads
            /\ multi' = StartLoad(multi, k)
    /\ UNCHANGED <<viewer, probe, tg, str, panel, search>>

\* The rest of loadSystem once the loader hands over the root of load i:
\* the root joins the scene, the map records it for its system, and the
\* search chips are refreshed for the searched system.
LoadArrived(m, i) ==
    [m EXCEPT !.loads[i].pc = "done",
              !.scene = @ \cup {i},
              !.loaded[m.loads[i].sys] = i,
              !.chipsCalls = IF m.loads[i].sys = currentSystemForSearch
                             THEN @ + 1 ELSE @]

\* The start-up after the load it waited for: after bones it calls
\* loadSystem('muscles'), after muscles it refreshes the chips.
StartupContinue(m) ==
    IF m.startup.stage = "bones" /\ ~LoadedHas(m, "muscles")
    THEN [StartLoad(m, "muscles") EXCEPT
              !.startup = [stage |-> "muscles", load |-> Len(m.loads) + 1]]
    ELSE [m EXCEPT !.startup = [stage |-> "done", load |-> 0],
                   !.chipsCalls = @ + 1]

\* The loader resolves load i.
MultiLoadResolve(i) ==
    /\ multi.loads[i].pc = "loading"
    /\ multi' = IF multi.startup.load = i
                THEN StartupContinue(LoadArrived(multi, i))
                ELSE LoadArrived(multi, i)
    /\ UNCHANGED <<viewer, probe, tg, str, panel, search>>

\* The loader rejects load i: loadSystem throws, and so does the start-up
\* when it waited for this load.
MultiLoadReject(i) ==
    /\ multi.loads[i].pc = "loading"
    /\ multi' = [multi EXCEPT
            !.loads[i].pc = "failed",
            !.startup = IF @.load = i THEN [stage |-> "failed", load |-> 0]
                        ELSE @]
    /\ UNCHANGED <<viewer, probe, tg, str, panel, search>>

\* The roots pick casts its ray against: those the map records.
RecordedRoots == { multi.loaded[k] : k \in SYSTEMS } \ {0}

\* pick: a mesh of a recorded root is selected, a miss clears the selection.
MultiPick(hit) ==
    /\ multi.selection # hit
    /\ multi' = [multi EXCEPT !.selection = hit]
    /\ UNCHANGED <<viewer, probe, tg, str, panel, search>>

NextMulti ==
    \/ \E k \in MultiButtons : MultiClick(k)
    \/ \E i \in 1..Len(multi.loads) : MultiLoadResolve(i)
    \/ \E i \in 1..Len(multi.loads) : MultiLoadReject(i)
    \/ \E hit \in RecordedRoots \cup {0} : MultiPick(hit)

SpecMulti == InitMulti /\ [][NextMulti]_vars

(***************************************************************************)
(* Properties                                                              *)
(***************************************************************************)
\* The names of the meshes of an asset, in traverse order.
MeshNamesOf(asset) ==
    LET meshes == SelectSeq(asset, LAMBDA p : p.isMesh)
    IN  [i \in 1..Len(meshes) |-> meshes[i].name]

\* The active MeshIndex holds the primitives of system sys and no other.
MeshIndexIsOf(sys) ==
    /\ [i \in 1..Len(meshList) |-> meshList[i].name] = MeshNamesOf(ModelAsset(sys))
    /\ DOMAIN meshByKey = { slugify(n) : n \in { MeshNamesOf(ModelAsset(sys))[i] :
                                i \in 1..Len(MeshNamesOf(ModelAsset(sys))) } }
    /\ \A k \in DOMAIN meshByKey : \A j \in 1..Len(meshByKey[k]) :
          slugify(meshList[meshByKey[k][j]].name) = k

AllSettled == \A c \in 1..Len(calls) : calls[c].pc = "done"

\* C1 (cancellation): once every load of every loadSystem call has resolved,
\* in whatever order, the mesh index holds exactly the primitives of the
\* system requested last, the model of that call is the active one, and the
\* group index is the one built from that system's metadata.
C1_Cancellation ==
    AllSettled =>
        LET last == Len(calls)
        IN  /\ calls[last].sys \in SYSTEMS
            /\ modelRoot = last
            /\ MeshIndexIsOf(calls[last].sys)
            /\ groupByKey = buildGroupIndex(GroupsJson(calls[last].sys))

\* Two calls for different systems, the second made while the first was
\* loading, both settled, the model of the first released.
C1_Witness ==
    /\ Len(calls) = 2
    /\ AllSettled
    /\ ~calls[2].cleanStart
    /\ calls[1].sys # calls[2].sys
    /\ calls[1].disposed = 1

\* C2 (a stale completion is a no-op): a metadata or model completion whose
\* token is not the current loadToken changes neither the group index, nor
\* the mesh index and the appearance of its meshes, nor the active model,
\* nor the selection.
C2_StaleCompletionNoOp ==
    [][ (\E c \in 1..Len(calls) :
            /\ calls[c].token # loadToken
            /\ GroupsResolve(c) \/ ModelResolve(c))
        => UNCHANGED shared ]_vars

\* A model arrived stale while another system's model and groups were active.
C2_Witness ==
    /\ lastOp = Op("modelResolve", TRUE)
    /\ meshList # <<>>
    /\ DOMAIN groupByKey # {}

\* C3 (no leak, no use after release): a model whose load has resolved is
\* either the active model and not released, or not active and released
\* exactly once; nothing else is released or active; the meshes of the mesh
\* index belong to the active model.
C3_NoLeakNoUseAfterRelease ==
    /\ \A c \in 1..Len(calls) :
          IF calls[c].resolved
          THEN \/ modelRoot = c /\ calls[c].disposed = 0
               \/ modelRoot # c /\ calls[c].disposed = 1
          ELSE modelRoot # c /\ calls[c].disposed = 0
    /\ modelRoot \in 0..Len(calls)
    /\ IF modelRoot = 0 THEN meshList = <<>>
       ELSE MeshIndexIsOf(calls[modelRoot].sys)

\* One model was released and another is active.
C3_Witness ==
    /\ modelRoot # 0
    /\ \E c \in 1..Len(calls) :
          c # modelRoot /\ calls[c].resolved /\ calls[c].disposed = 1

\* System sys is loaded whole: key, groups and meshes.
WholeSystemActive(sys) ==
    /\ activeSystem = sys
    /\ groupByKey = buildGroupIndex(GroupsJson(sys))
    /\ MeshIndexIsOf(sys)

\* C4 (a failed load keeps the previous system): when the latest call, for a
\* key of the catalog, was made with the previous system loaded whole and
\* its metadata fetch or its model load has rejected, the active key, the group index and the mesh
\* index are still those of the previous system.
C4_FailureKeepsPrevious ==
    \A c \in 2..Len(calls) :
        (/\ c = Len(calls)
         /\ calls[c].sys \in SYSTEMS
         /\ calls[c].pc = "failed"
         /\ calls[c].cleanStart)
            => WholeSystemActive(calls[c].prevSys)

\* C5 (unknown system): loadSystem with a key that is no key of the catalog
\* reports an error and changes neither loadToken, nor the active key, nor
\* the selection, nor the indexes, and starts no load.
C5_UnknownSystemRejected ==
    [][ \A k \in SwitchKeys \ SYSTEMS :
            LoadSystem(k) =>
                /\ UNCHANGED <<loadToken, activeSystem, selectedGroupKeys,
                               groupByKey, modelRoot, meshList, meshByKey,
                               calls>>
                /\ status'.kind = "error" ]_vars

\* expand(): the union of the members of the selected groups, a selected
\* key of no group standing for itself.
Expanded(selected, groups) ==
    UNION { IF k \in DOMAIN groups THEN groups[k].meshKeys ELSE {k} :
            k \in selected }

\* What the three states look like on a mesh, as far as its materials have
\* the attribute.
LooksLike(mesh, state) ==
    /\ mesh.state = state
    /\ mesh.renderOrder = IF state = "sel" THEN 2 ELSE 0
    /\ \A i \in 1..Len(mesh.material) :
          LET m == mesh.material[i]
              o == mesh.matBase[i]
          IN  CASE state = "base" -> snapshotMaterial(m) = o
                [] state = "dim" ->
                      /\ m.opacity = OpacityDim /\ m.transparent
                      /\ m.hasColor => m.color = ColorDim
                      /\ m.hasEmissive => m.emissive = ColorBlack
                      /\ m.hasDepthWrite => ~m.depthWrite
                [] state = "sel" ->
                      /\ m.opacity = OpacityFull /\ ~m.transparent
                      /\ m.hasColor => m.color = o.color
                      /\ m.hasEmissive => m.emissive = ColorHighlight
                      /\ m.hasDepthWrite => m.depthWrite

\* Every mesh is in the state the repaint rule gives for the selection.
Repainted ==
    LET e == Expanded(selectedGroupKeys, groupByKey)
    IN  \A i \in 1..Len(meshList) :
            LooksLike(meshList[i],
                      IF e = {} THEN "base"
                      ELSE IF meshList[i].partKey \in e THEN "sel" ELSE "dim")

FreshModelArrived == lastOp = Op("modelResolve", FALSE)

\* C6 as claimed: when a model load with the current token completes, the
\* selection is empty and every mesh of the new model is Base, whatever
\* toggles and picks happened while the load was pending.
C6_FreshModelFindsNoSelection ==
    FreshModelArrived =>
        /\ selectedGroupKeys = {}
        /\ \A i \in 1..Len(meshList) : LooksLike(meshList[i], "base")

\* C6 as amended: when a model load with the current token completes, every
\* mesh of the new model is in the state the repaint rule gives for the
\* selection of that moment; when no toggle or pick changed the selection
\* since the loadSystem call, the selection is empty and every mesh is Base.
C6_FreshModelRepainted ==
    FreshModelArrived =>
        /\ Repainted
        /\ ~selTouched =>
              /\ selectedGroupKeys = {}
              /\ \A i \in 1..Len(meshList) : LooksLike(meshList[i], "base")

\* A model arrived fresh for a second call, during which nothing was
\* selected, after a selection had been made on the first system.
C6_Witness ==
    /\ FreshModelArrived
    /\ modelRoot = 2
    /\ ~selTouched
    /\ calls[1].pc = "done"
    /\ Len(meshList) > 0

\* C7 (repaint rule): after applySelectionToMeshes (a toggle, a pick that
\* hits, a clear, a fresh model) every mesh is in exactly one of the three
\* states and looks it: Base when expand() is empty, else Selected exactly
\* when its key is in expand() and Dimmed otherwise.
C7_RepaintRule ==
    (lastOp.op \in {"toggle", "pick", "clear"} \/ FreshModelArrived) =>
        /\ Repainted
        /\ \A i \in 1..Len(meshList) :
              Cardinality({ st \in MeshStates : meshList[i].state = st }) = 1

\* After a toggle some mesh is Selected and some mesh is Dimmed.
C7_Witness ==
    /\ lastOp.op = "toggle"
    /\ \E i, j \in 1..Len(meshList) :
          meshList[i].state = "sel" /\ meshList[j].state = "dim"

\* C8 (restoration round trip): after any sequence of states set on a mesh,
\* whenever the last one is Base every captured attribute of every material
\* equals the snapshot, and the material equals the one loaded; the
\* snapshot is always the one taken of the loaded materials.
C8_RestoreBase ==
    /\ probe.mesh.matBase =
          [i \in 1..Len(probe.loaded) |-> snapshotMaterial(probe.loaded[i])]
    /\ probe.mesh.state = "base" =>
          \A i \in 1..Len(probe.mesh.material) :
              /\ snapshotMaterial(probe.mesh.material[i]) = probe.mesh.matBase[i]
              /\ [probe.mesh.material[i] EXCEPT !.needsUpdate = FALSE]
                    = probe.loaded[i]

\* Base was set after Selected on a translucent material that does not
\* write depth and has its own color and emissive.
C8_Witness ==
    /\ probe.mesh.state = "base"
    /\ probe.prev = "sel"
    /\ Len(probe.mesh.material) = 1
    /\ probe.mesh.material[1].needsUpdate
    /\ probe.loaded[1].opacity = 50
    /\ probe.loaded[1].transparent
    /\ probe.loaded[1].hasDepthWrite /\ ~probe.loaded[1].depthWrite
    /\ probe.loaded[1].color = ColorMuscle
    /\ probe.loaded[1].emissive = ColorBlack

\* C9 (expansion): computeSelectedMeshKeys gives the union, over the
\* selected keys, of the members of the group of that key in the current
\* group index, a key of no group giving itself.
C9_Expansion ==
    computeSelectedMeshKeys(selectedGroupKeys, groupByKey)
        = Expanded(selectedGroupKeys, groupByKey)

\* Two groups that share a member are selected.
C9_Witness ==
    /\ selectedGroupKeys = {KeyQuad, KeyHip}
    /\ {KeyQuad, KeyHip} \subseteq DOMAIN groupByKey
    /\ groupByKey[KeyQuad].meshKeys = {KeyVl, KeyRf, <<"v","m">>, KeyQuad}
    /\ groupByKey[KeyHip].meshKeys = {KeyRf, <<"p","s">>, KeyHip}
    /\ computeSelectedMeshKeys(selectedGroupKeys, groupByKey)
          = {KeyVl, KeyRf, <<"v","m">>, KeyQuad, <<"p","s">>, KeyHip}

\* C10 (toggle involution): toggling a key twice in a row gives the
\* selection back; one toggle changes the membership of no other key, and
\* of the key itself unless it is the empty key.
C10_ToggleInvolution ==
    /\ tg.step = 2 => tg.s = tg.s0
    /\ tg.step >= 1 =>
          /\ tg.s1 \ {tg.key} = tg.s0 \ {tg.key}
          /\ tg.key # EmptyStr => ((tg.key \in tg.s1) # (tg.key \in tg.s0))

\* A selected key was toggled off and on again.
C10_Witness ==
    /\ tg.step = 2
    /\ tg.key \in tg.s0
    /\ tg.key \notin tg.s1
    /\ tg.s0 # {tg.key}

\* C11 (pick deselects): when the ray hits a mesh that is in state Selected,
\* that mesh is not Selected after the pick and its repaint, whether it was
\* Selected through its own key or as a member of a selected group. (Only
\* picks made while the meshes show the current selection are looked at.)
C11_PickDeselects ==
    [][ \A i \in 1..Len(meshList) :
            (Repainted /\ meshList[i].state = "sel" /\ Pick(i)) =>
                meshList'[i].state # "sel" ]_vars

\* C12 (pick selects by mesh key): from an empty selection, after a pick on
\* a mesh with the non-empty key k the meshes in state Selected are exactly
\* the meshes whose partKey is k, whatever the group index holds.
C12_PickSelectsByMeshKey ==
    [][ \A i \in 1..Len(meshList) :
            (selectedGroupKeys = {} /\ PickKey(meshList[i]) # EmptyStr
                /\ Pick(i)) =>
                \A j \in 1..Len(meshList) :
                    (meshList'[j].state = "sel")
                        <=> (meshList'[j].partKey = PickKey(meshList[i])) ]_vars

\* C13 (pick without a hit): a pick whose ray hits nothing leaves the
\* selection and every mesh, its state and its materials, as they were.
C13_PickMissNoOp ==
    [][ lastOp'.op = "pickNone" =>
            UNCHANGED <<selectedGroupKeys, meshList>> ]_vars

\* A pick hit nothing while a group was selected and a mesh highlighted.
C13_Witness ==
    /\ lastOp.op = "pickNone"
    /\ selectedGroupKeys # {}
    /\ \E i, j \in 1..Len(meshList) :
          meshList[i].state = "sel" /\ meshList[j].state = "dim"

\* The exporter suffixes, in any case.
EndsInExporterSuffix(s) ==
    EndsWithNoCase(s, SuffixModel) \/ EndsWithNoCase(s, SuffixGeometry)

\* Letters (A-Z, a-z) and digits only.
IsAlphanumeric(s) == \A i \in 1..Len(s) : IsSlugChar(ToLowerChar(s[i]))

\* C15 (idempotence): normalizing a normalized name changes nothing, for
\* every name, those that end in an exporter suffix followed by a side
\* marker or in two exporter suffixes included.
C15_Idempotent == str.step = 2 => str.cur = str.first

\* What C16 appends to a base name: nothing, ".L", ".r", ".j", "Model",
\* "Geometry".
StrippedTails ==
    { EmptyStr, <<".","L">>, <<".","r">>, <<".","j">>,
      <<"M","o","d","e","l">>,
      <<"G","e","o","m","e","t","r","y">> }

\* C16 (suffix stripping): for a base name of letters and digits that does
\* not end in an exporter suffix, the name alone and the name followed by
\* ".L", ".r", ".j", "Model" or "Geometry" all normalize to the lower-case
\* form of the base name.
C16_SuffixStripping ==
    ( /\ str.step >= 1
      /\ IsAlphanumeric(str.base)
      /\ ~EndsInExporterSuffix(str.base)
      /\ str.tail \in StrippedTails ) =>
        str.first = ToLowerCase(str.base)

\* "BicepsBrachiiModel" was normalized.
C16_Witness ==
    /\ str.step >= 1
    /\ str.base = <<"B","i","c","e","p","s","B","r","a","c","h","i","i">>
    /\ str.tail = <<"M","o","d","e","l">>
    /\ str.first = <<"b","i","c","e","p","s","b","r","a","c","h","i","i">>

\* The display name of an entry and the key it derives.
DerivedKey(e) == slugify(EntryName(e))

\* The normalized variant names of an entry, across all its tags.
NormalizedVariants(e) ==
    UNION { { slugify(e.variants[i][j]) : j \in 1..Len(e.variants[i]) } :
            i \in 1..Len(e.variants) }

\* C14 (group index build): the index built from a metadata file has a
\* group under every non-empty derived key and under no other, each under
\* its own key; a group's members are its key and the non-empty normalized
\* variant names of all the entries that derive the key, and its name is
\* the display name of the first of them.
C14_IndexBuild ==
    panel.loaded =>
        LET es == panel.groupsJson
            Sources(k) == { i \in 1..Len(es) : DerivedKey(es[i]) = k }
            First(k) == CHOOSE i \in Sources(k) : \A j \in Sources(k) : i <= j
        IN  /\ EmptyStr \notin DOMAIN panel.index
            /\ DOMAIN panel.index =
                    { DerivedKey(es[i]) : i \in 1..Len(es) } \ {EmptyStr}
            /\ \A k \in DOMAIN panel.index :
                  /\ panel.index[k].key = k
                  /\ k \in panel.index[k].meshKeys
                  /\ panel.index[k].meshKeys \ {k} =
                        UNION { NormalizedVariants(es[i]) : i \in Sources(k) }
                            \ {k, EmptyStr}
                  /\ panel.index[k].name = EntryName(es[First(k)])

\* The muscles file was indexed: its first and third entries are one group
\* under the first one's name, its last entry has no group.
C14_Witness ==
    /\ panel.loaded
    /\ panel.groupsJson = MusclesGroups
    /\ DOMAIN panel.index = {KeyQuad, KeyHip}
    /\ panel.index[KeyQuad].name = <<"Q","u","a","d">>
    /\ panel.index[KeyQuad].meshKeys = {KeyVl, KeyRf, <<"v","m">>, KeyQuad}

\* The chips the panel shows, in their order.
Presented == SelectSeq(panel.chips, LAMBDA c : ~c.hidden)

\* Shorter names first, names of one length in dictionary order.
InLengthOrder(a, b) ==
    \/ Len(a) < Len(b)
    \/ Len(a) = Len(b) /\ localeCompare(a, b) <= 0

\* C18 (ordering and cap): the groups presented for a query come sorted by
\* the length of their display names, names of one length in dictionary
\* order, and are no more than the fixed maximum.
C18_SortedAndCapped ==
    panel.loaded =>
        /\ \A i, j \in 1..Len(Presented) :
              i < j => InLengthOrder(Presented[i].name, Presented[j].name)
        /\ Len(Presented) <= ChipLimit

\* The chips panel of viewer.js shows a group exactly when the normalized
\* filter text is a substring of its normalized name.
PanelFilterMatches ==
    panel.loaded =>
        \A k \in DOMAIN panel.index :
            (\E j \in 1..Len(Presented) : Presented[j].key = k)
            <=> Includes(slugify(panel.index[k].name), slugify(panel.filter))

\* C17 (filter matching): once the metadata is there and no call waits, a
\* group has a chip exactly when the normalized query is a substring of its
\* normalized display name; an empty normalized query matches every group.
C17_FilterMatches ==
    (search.cached /\ search.pending = <<>>) =>
        \A i \in 1..Len(search.groups) :
            (\E j \in 1..Len(search.chips) :
                search.chips[j].key = search.groups[i].k)
            <=> Includes(slugify(SearchName(search.groups[i])),
                         slugify(search.value))

\* C19 (load token): loadToken never decreases; a loadSystem call that
\* starts a load raises it by exactly one and holds the new value; no other
\* step changes it; so of the loads issued at most one, the latest, holds
\* the current token.
C19_TokenDiscipline ==
    [][ /\ loadToken' >= loadToken
        /\ Len(calls') > Len(calls) =>
              /\ loadToken' = loadToken + 1
              /\ calls'[Len(calls')].token = loadToken'
        /\ Len(calls') = Len(calls) => loadToken' = loadToken
        /\ \A c \in 1..Len(calls') :
              calls'[c].token = loadToken' => c = Len(calls') ]_vars

\* A second load was issued while the first one was still waiting.
C19_Witness ==
    /\ Len(calls) = 2
    /\ loadToken = 2
    /\ calls[1].token = 1 /\ calls[1].pc = "model"
    /\ calls[2].token = 2 /\ calls[2].pc = "groups"

\* C20 (appearance tracks selection): between any two handlers every mesh
\* of the mesh index is in the state the repaint rule gives for the current
\* selection and group index, Base when expand() is empty, also after
\* loadSystem cleared the selection and after the group index was rebuilt.
C20_AppearanceTracksSelection == Repainted

\* C21 (empty keys): after any loads, toggles and picks, the empty key is a
\* key of no group of the group index, of no entry of meshByKey and of no
\* selected group, also when the model has a mesh whose name normalizes to
\* nothing.
C21_NoEmptyKey ==
    /\ EmptyStr \notin DOMAIN groupByKey
    /\ EmptyStr \notin DOMAIN meshByKey
    /\ EmptyStr \notin selectedGroupKeys

\* Where a loadSystem call stands: its fetch of the metadata is pending,
\* its loadAsync of the model is pending.
MetadataInFlight(c) == calls[c].pc = "groups"

ModelInFlight(c) == calls[c].pc = "model"

\* C22 (concurrent loads): within one loadSystem call the model load is
\* issued without waiting for the metadata, so that while the fetch of the
\* metadata is in flight the load of the model is in flight too.
C22_LoadsConcurrent ==
    \A c \in 1..Len(calls) : MetadataInFlight(c) => ModelInFlight(c)

\* C23 (loading overlay): when the loads of all loadSystem calls have
\* resolved, in whatever order, the loading overlay is hidden.
C23_OverlaySettles == AllSettled => ~loading.show

\* C24 (silent stale load): when a fetch or a model load settles, resolved
\* or rejected, for a call whose token is no longer the current one, the
\* status line stays as it was.
C24_StaleSettlesSilently ==
    [][ \A c \in 1..Len(calls) :
            (calls'[c].pc # calls[c].pc /\ calls[c].token # loadToken) =>
                status' = status ]_vars

\* The roots of system k in the scene.
RootsInScene(k) == { r \in multi.scene : multi.loads[r].sys = k }

\* C25: however the clicks on the system buttons interleave with the
\* completions of the loads, the scene holds at most one root of each
\* system and every root in the scene is the one the map  loaded  records
\* for its system, so that unloadSystem removes all that was loaded for it.
C25_OneRootPerSystem ==
    \A k \in SYSTEMS :
        /\ Cardinality(RootsInScene(k)) <= 1
        /\ \A r \in RootsInScene(k) : multi.loaded[k] = r

====
